---------------------------- MODULE Spec2Model ----------------------------
(***************************************************************************)
(* Model of the proxy-engine supervisor (MihomoCore) and of the bridge     *)
(* that drives it (PlatformChannel) in windows/runner.                      *)
(*                                                                         *)
(* Two threads are modelled: the caller (platform) thread, on which the    *)
(* bridge runs Register, the stream handlers and every method call, and    *)
(* the traffic poller thread created by StartTrafficMonitor.  The engine   *)
(* process and its control API are the environment.                        *)
(***************************************************************************)
EXTENDS Integers, Sequences, FiniteSets, TLC

(***************************************************************************)
(* Bounds of the model                                                     *)
(***************************************************************************)
\* GetTickCount64 is followed up to this value (milliseconds); past it the
\* tick counter reads the same value again.
MaxClock == 3000

\* Tick count when the program is constructed.
BootClock == 1000

(***************************************************************************)
(* Program constants                                                       *)
(***************************************************************************)
DefaultPort == 9090
GraceMs == 500
PollMs == 1000
MsPerSecond == 1000

NULL == "null"
DefaultHost == "127.0.0.1"

(***************************************************************************)
(* Environment: configuration files, engine counters, control API          *)
(***************************************************************************)
\* What the two regular expressions of ParseControllerSettings find in each
\* file: a.yaml has `external-controller: localhost:9091` and `secret: s1`,
\* b.yaml has `external-controller: localhost` (no port) and no secret line,
\* gone.yaml cannot be opened.
ConfigFiles == {"a.yaml", "b.yaml", "gone.yaml"}

FileContent(p) ==
    CASE p = "a.yaml" -> [readable |-> TRUE, hasController |-> TRUE, host |-> "localhost",
                          hasPort |-> TRUE, port |-> 9091, hasSecret |-> TRUE, secret |-> "s1"]
      [] p = "b.yaml" -> [readable |-> TRUE, hasController |-> TRUE, host |-> "localhost",
                          hasPort |-> FALSE, port |-> 0, hasSecret |-> FALSE, secret |-> ""]
      [] OTHER        -> [readable |-> FALSE, hasController |-> FALSE, host |-> "",
                          hasPort |-> FALSE, port |-> 0, hasSecret |-> FALSE, secret |-> ""]

\* Cumulative (up, down) byte counters the engine goes through while it lives.
EngineCounters == << [up |-> 0, down |-> 0],
                     [up |-> 1000, down |-> 2000],
                     [up |-> 1500, down |-> 2400] >>

VARIABLES
    \* caller thread
    callerPc,          \* where the caller thread is
    ret,               \* what the call completed by the last step returned: [op, val]
    \* MihomoCore fields
    state_, isRunning_, stopMonitoring_,
    processHandle_, processThread_,  \* processId_ is written and never read
    configPath_, controllerHost_, controllerPort_, controllerSecret_,
    lastUpload_, lastDownload_, lastTime_,
    stateCallback_, trafficCallback_, logCallback_, errorCallback_,
    initOk,            \* what Init returned
    \* poller thread (trafficThread_)
    trafficThread,     \* "none" (not joinable) or the position of the thread
    pollStats,         \* the lambda's local `stats`
    pollNow,           \* the lambda's local `now`
    \* environment
    coreExists,        \* mihomo.exe is present in the work directory
    engine,            \* the process behind processHandle_: "none", "alive", "exited"
    engIdx,            \* index into EngineCounters of the live engine
    clock,             \* GetTickCount64
    \* what the last step did
    delivered,         \* the event handed to the event sink by the last step
    lastRequest,       \* the HTTP request the last step sent
    aborted,           \* the exception that left a thread (std::terminate), or NoFault
    \* history
    parsedOnce,        \* a configuration file has been read and parsed
    afterStop,         \* a Stop call has returned and Start was not called since
    sessionSamples,    \* samples taken since the last successful Start (capped at 2)
    callEvents         \* events the caller thread handed to the sink in the Start or
                       \* Stop call in progress or just returned, in order

coreVars == << state_, isRunning_, stopMonitoring_, processHandle_, processThread_ >>
cfgVars == << configPath_, controllerHost_, controllerPort_, controllerSecret_ >>
lastVars == << lastUpload_, lastDownload_, lastTime_ >>
cbVars == << stateCallback_, trafficCallback_, logCallback_, errorCallback_ >>
pollVars == << trafficThread, pollStats, pollNow >>
envVars == << coreExists, engine, engIdx >>
histVars == << parsedOnce, afterStop, sessionSamples >>

vars == << callerPc, ret, coreVars, cfgVars, lastVars, cbVars, initOk, pollVars,
           envVars, clock, delivered, lastRequest, aborted, histVars, callEvents >>

NoEvent == [kind |-> "none"]
NoRet == [op |-> "none", val |-> FALSE]
NoRequest == [method |-> "none"]
NoFault == "none"
NoStats == [upload |-> 0, download |-> 0, uploadSpeed |-> 0, downloadSpeed |-> 0]

StateEvent(s) == [kind |-> "state", value |-> s]
ErrorEvent(m) == [kind |-> "error", value |-> m]
TrafficEvent(s) == [kind |-> "traffic", upload |-> s.upload, download |-> s.download,
                    uploadSpeed |-> s.uploadSpeed, downloadSpeed |-> s.downloadSpeed]

\* Invoking an observer slot through the bridge's lambda: SendEvent hands the
\* event to the sink; an empty slot is skipped by the `if (callback_)` tests.
Dispatch(slot, ev) == IF slot THEN ev ELSE NoEvent

\* Sleep(ms) as seen through GetTickCount64.
Later(ms) == IF clock + ms <= MaxClock THEN clock + ms ELSE clock

(***************************************************************************)
(* MihomoCore::MihomoCore                                                  *)
(***************************************************************************)
Init ==
    /\ callerPc = "boot"
    /\ ret = NoRet
    /\ state_ = "disconnected"
    /\ isRunning_ = FALSE
    /\ stopMonitoring_ = FALSE
    /\ processHandle_ = NULL
    /\ processThread_ = NULL
    /\ configPath_ = ""
    /\ controllerHost_ = DefaultHost
    /\ controllerPort_ = DefaultPort
    /\ controllerSecret_ = ""
    /\ lastUpload_ = 0
    /\ lastDownload_ = 0
    /\ lastTime_ = 0
    /\ stateCallback_ = FALSE
    /\ trafficCallback_ = FALSE
    /\ logCallback_ = FALSE
    /\ errorCallback_ = FALSE
    /\ initOk = FALSE
    /\ trafficThread = "none"
    /\ pollStats = NoStats
    /\ pollNow = 0
    /\ coreExists \in BOOLEAN
    /\ engine = "none"
    /\ engIdx = 1
    /\ clock = BootClock
    /\ delivered = NoEvent
    /\ lastRequest = NoRequest
    /\ aborted = NoFault
    /\ parsedOnce = FALSE
    /\ afterStop = FALSE
    /\ sessionSamples = 0
    /\ callEvents = << >>


(***************************************************************************)
(* Controller Config Resolver                                              *)
(***************************************************************************)
ParsedHost(p) ==
    LET f == FileContent(p)
    IN  IF f.readable /\ f.hasController THEN f.host ELSE controllerHost_

ParsedPort(p) ==
    LET f == FileContent(p)
    IN  IF f.readable /\ f.hasController /\ f.hasPort THEN f.port ELSE controllerPort_

ParsedSecret(p) ==
    LET f == FileContent(p)
    IN  IF f.readable /\ f.hasSecret THEN f.secret ELSE controllerSecret_

ParseControllerSettings(p) ==
    /\ controllerHost_' = ParsedHost(p)
    /\ controllerPort_' = ParsedPort(p)
    /\ controllerSecret_' = ParsedSecret(p)
    /\ parsedOnce' = (parsedOnce \/ FileContent(p).readable)

(***************************************************************************)
(* PlatformChannel::Register and the event-stream handlers                 *)
(***************************************************************************)
\* MihomoCore::Init, called at the end of Register: no observer is attached
\* yet, and Register drops the result.
Register ==
    /\ aborted = NoFault
    /\ callerPc = "boot"
    /\ initOk' = coreExists
    /\ delivered' = IF coreExists THEN NoEvent
                    ELSE Dispatch(errorCallback_, ErrorEvent("Core binary not found"))
    /\ ret' = [op |-> "Init", val |-> coreExists]
    /\ callerPc' = "idle"
    /\ lastRequest' = NoRequest
    /\ UNCHANGED << coreVars, cfgVars, lastVars, cbVars, pollVars, envVars, clock,
                    aborted, histVars >>
    /\ callEvents' = << >>

\* on-listen handler: the four Set*Callback calls with the bridge's lambdas.
OnListen ==
    /\ aborted = NoFault
    /\ callerPc = "idle"
    /\ stateCallback_' = TRUE
    /\ trafficCallback_' = TRUE
    /\ logCallback_' = TRUE
    /\ errorCallback_' = TRUE
    /\ delivered' = NoEvent
    /\ lastRequest' = NoRequest
    /\ ret' = NoRet
    /\ UNCHANGED << callerPc, coreVars, cfgVars, lastVars, initOk, pollVars,
                    envVars, clock, aborted, histVars >>
    /\ callEvents' = << >>

\* on-cancel handler: the four Set*Callback(nullptr) calls.
OnCancel ==
    /\ aborted = NoFault
    /\ callerPc = "idle"
    /\ stateCallback_' = FALSE
    /\ trafficCallback_' = FALSE
    /\ logCallback_' = FALSE
    /\ errorCallback_' = FALSE
    /\ delivered' = NoEvent
    /\ lastRequest' = NoRequest
    /\ ret' = NoRet
    /\ UNCHANGED << callerPc, coreVars, cfgVars, lastVars, initOk, pollVars,
                    envVars, clock, aborted, histVars >>
    /\ callEvents' = << >>

(***************************************************************************)
(* MihomoCore::Start                                                       *)
(***************************************************************************)
\* CreateProcessA cannot succeed without the executable.
CreateProcessOutcomes == IF coreExists THEN {TRUE, FALSE} ELSE {FALSE}

\* Start without the running test of line 58.
StartNoRunningTest(p) ==
    /\ aborted = NoFault
    /\ callerPc = "idle"
    /\ lastRequest' = NoRequest
    /\ IF FALSE
         THEN /\ ret' = [op |-> "Start", val |-> TRUE]
              /\ delivered' = NoEvent
              /\ UNCHANGED << callerPc, coreVars, cfgVars, lastVars, cbVars, initOk,
                              pollVars, envVars, clock, aborted, histVars >>
         ELSE /\ configPath_' = p
              /\ ParseControllerSettings(p)
              /\ afterStop' = FALSE
              /\ \E created \in CreateProcessOutcomes :
                    IF created
                      THEN /\ processHandle_' = "hProcess"
                           /\ processThread_' = "hThread"
                           /\ engine' = "alive"
                           /\ engIdx' = 1
                           /\ callerPc' = "start_sleep"
                           /\ delivered' = NoEvent
                           /\ ret' = NoRet
                      ELSE /\ delivered' = Dispatch(errorCallback_,
                                               ErrorEvent("Failed to start core process"))
                           /\ ret' = [op |-> "Start", val |-> FALSE]
                           /\ UNCHANGED << callerPc, processHandle_, processThread_,
                                           engine, engIdx >>
              /\ UNCHANGED << state_, isRunning_, stopMonitoring_, lastVars, cbVars,
                              initOk, pollVars, coreExists, clock, aborted,
                              sessionSamples >>
    /\ callEvents' = IF delivered'.kind = "none" THEN << >> ELSE << delivered' >>

\* Start testing whether the process is alive (IsRunning) where line 58 tests
\* the running flag.
StartTestsProcessAlive(p) ==
    /\ aborted = NoFault
    /\ callerPc = "idle"
    /\ lastRequest' = NoRequest
    /\ IF isRunning_ /\ processHandle_ # NULL /\ engine = "alive"
         THEN /\ ret' = [op |-> "Start", val |-> TRUE]
              /\ delivered' = NoEvent
              /\ UNCHANGED << callerPc, coreVars, cfgVars, lastVars, cbVars, initOk,
                              pollVars, envVars, clock, aborted, histVars >>
         ELSE /\ configPath_' = p
              /\ ParseControllerSettings(p)
              /\ afterStop' = FALSE
              /\ \E created \in CreateProcessOutcomes :
                    IF created
                      THEN /\ processHandle_' = "hProcess"
                           /\ processThread_' = "hThread"
                           /\ engine' = "alive"
                           /\ engIdx' = 1
                           /\ callerPc' = "start_sleep"
                           /\ delivered' = NoEvent
                           /\ ret' = NoRet
                      ELSE /\ delivered' = Dispatch(errorCallback_,
                                               ErrorEvent("Failed to start core process"))
                           /\ ret' = [op |-> "Start", val |-> FALSE]
                           /\ UNCHANGED << callerPc, processHandle_, processThread_,
                                           engine, engIdx >>
              /\ UNCHANGED << state_, isRunning_, stopMonitoring_, lastVars, cbVars,
                              initOk, pollVars, coreExists, clock, aborted,
                              sessionSamples >>
    /\ callEvents' = IF delivered'.kind = "none" THEN << >> ELSE << delivered' >>

\* Lines 57-95: the running test, the configuration, the spawn.
Start(p) ==
    /\ aborted = NoFault
    /\ callerPc = "idle"
    /\ lastRequest' = NoRequest
    /\ IF isRunning_
         THEN /\ ret' = [op |-> "Start", val |-> TRUE]
              /\ delivered' = NoEvent
              /\ UNCHANGED << callerPc, coreVars, cfgVars, lastVars, cbVars, initOk,
                              pollVars, envVars, clock, aborted, histVars >>
         ELSE /\ configPath_' = p
              /\ ParseControllerSettings(p)
              /\ afterStop' = FALSE
              /\ \E created \in CreateProcessOutcomes :
                    IF created
                      THEN /\ processHandle_' = "hProcess"
                           /\ processThread_' = "hThread"
                           /\ engine' = "alive"
                           /\ engIdx' = 1
                           /\ callerPc' = "start_sleep"
                           /\ delivered' = NoEvent
                           /\ ret' = NoRet
                      ELSE /\ delivered' = Dispatch(errorCallback_,
                                               ErrorEvent("Failed to start core process"))
                           /\ ret' = [op |-> "Start", val |-> FALSE]
                           /\ UNCHANGED << callerPc, processHandle_, processThread_,
                                           engine, engIdx >>
              /\ UNCHANGED << state_, isRunning_, stopMonitoring_, lastVars, cbVars,
                              initOk, pollVars, coreExists, clock, aborted,
                              sessionSamples >>
    /\ callEvents' = IF delivered'.kind = "none" THEN << >> ELSE << delivered' >>

\* Lines 98-119: the grace period, the exit-code test, and either the error
\* report or the switch to connected with its state event.
StartHealthCheck ==
    /\ aborted = NoFault
    /\ callerPc = "start_sleep"
    /\ clock' = Later(GraceMs)
    /\ lastRequest' = NoRequest
    /\ IF engine = "exited"
         THEN /\ delivered' = Dispatch(errorCallback_,
                                       ErrorEvent("Core process exited immediately"))
              /\ callerPc' = "start_abort"
              /\ UNCHANGED << isRunning_, state_, stopMonitoring_, sessionSamples >>
         ELSE /\ isRunning_' = TRUE
              /\ state_' = "connected"
              /\ stopMonitoring_' = FALSE
              /\ delivered' = Dispatch(stateCallback_, StateEvent("connected"))
              /\ sessionSamples' = 0
              /\ callerPc' = "start_monitor"
    /\ ret' = NoRet
    /\ UNCHANGED << processHandle_, processThread_, cfgVars, lastVars,
                    cbVars, initOk, pollVars, envVars, aborted, parsedOnce, afterStop >>
    /\ callEvents' = IF delivered'.kind = "none" THEN callEvents ELSE Append(callEvents, delivered')

\* The abort of Start without the CloseHandle calls of lines 106-109.
StartAbortKeepsHandles ==
    /\ aborted = NoFault
    /\ callerPc = "start_abort"
    /\ UNCHANGED << processHandle_, processThread_ >>
    /\ engine' = "none"
    /\ ret' = [op |-> "Start", val |-> FALSE]
    /\ callerPc' = "idle"
    /\ delivered' = NoEvent
    /\ lastRequest' = NoRequest
    /\ UNCHANGED << state_, isRunning_, stopMonitoring_, cfgVars, lastVars,
                    cbVars, initOk, pollVars, coreExists, engIdx, clock, aborted,
                    histVars >>
    /\ callEvents' = IF delivered'.kind = "none" THEN callEvents ELSE Append(callEvents, delivered')

\* Lines 106-110: the handles are closed after the error was reported.
StartAbort ==
    /\ aborted = NoFault
    /\ callerPc = "start_abort"
    /\ processHandle_' = NULL
    /\ processThread_' = NULL
    /\ engine' = "none"
    /\ ret' = [op |-> "Start", val |-> FALSE]
    /\ callerPc' = "idle"
    /\ delivered' = NoEvent
    /\ lastRequest' = NoRequest
    /\ UNCHANGED << state_, isRunning_, stopMonitoring_, cfgVars, lastVars,
                    cbVars, initOk, pollVars, coreExists, engIdx, clock, aborted,
                    histVars >>
    /\ callEvents' = IF delivered'.kind = "none" THEN callEvents ELSE Append(callEvents, delivered')

\* Lines 122-124 and 311-312: the poller thread is created.  Assigning to a
\* std::thread that is still joinable calls std::terminate.
StartTrafficMonitor ==
    /\ aborted = NoFault
    /\ callerPc = "start_monitor"
    /\ IF trafficThread = "none"
         THEN /\ trafficThread' = "loop"
              /\ ret' = [op |-> "Start", val |-> TRUE]
              /\ callerPc' = "idle"
              /\ UNCHANGED aborted
         ELSE /\ aborted' = "joinable_thread"
              /\ ret' = NoRet
              /\ UNCHANGED << trafficThread, callerPc >>
    /\ delivered' = NoEvent
    /\ lastRequest' = NoRequest
    /\ UNCHANGED << coreVars, cfgVars, lastVars, cbVars, initOk, pollStats, pollNow,
                    envVars, clock, histVars >>
    /\ callEvents' = IF delivered'.kind = "none" THEN callEvents ELSE Append(callEvents, delivered')

(***************************************************************************)
(* MihomoCore::Stop and MihomoCore::StopMonitoring                         *)
(***************************************************************************)
\* Stop without the running test of line 128.
StopNoRunningTest ==
    /\ aborted = NoFault
    /\ callerPc = "idle"
    /\ lastRequest' = NoRequest
    /\ IF FALSE
         THEN /\ ret' = [op |-> "Stop", val |-> TRUE]
              /\ delivered' = NoEvent
              /\ afterStop' = TRUE
              /\ UNCHANGED << callerPc, state_ >>
         ELSE /\ state_' = "disconnecting"
              /\ delivered' = Dispatch(stateCallback_, StateEvent("disconnecting"))
              /\ callerPc' = "stop_monitoring"
              /\ ret' = NoRet
              /\ UNCHANGED afterStop
    /\ UNCHANGED << isRunning_, stopMonitoring_, processHandle_, processThread_,
                    cfgVars, lastVars, cbVars, initOk, pollVars, envVars,
                    clock, aborted, parsedOnce, sessionSamples >>
    /\ callEvents' = IF delivered'.kind = "none" THEN << >> ELSE << delivered' >>

\* Stop without the assignment of line 132.
StopSkipsDisconnecting ==
    /\ aborted = NoFault
    /\ callerPc = "idle"
    /\ lastRequest' = NoRequest
    /\ IF ~isRunning_
         THEN /\ ret' = [op |-> "Stop", val |-> TRUE]
              /\ delivered' = NoEvent
              /\ afterStop' = TRUE
              /\ UNCHANGED << callerPc, state_ >>
         ELSE /\ state_' = state_
              /\ delivered' = Dispatch(stateCallback_, StateEvent("disconnecting"))
              /\ callerPc' = "stop_monitoring"
              /\ ret' = NoRet
              /\ UNCHANGED afterStop
    /\ UNCHANGED << isRunning_, stopMonitoring_, processHandle_, processThread_,
                    cfgVars, lastVars, cbVars, initOk, pollVars, envVars,
                    clock, aborted, parsedOnce, sessionSamples >>
    /\ callEvents' = IF delivered'.kind = "none" THEN << >> ELSE << delivered' >>

\* Lines 127-135: the running test, then disconnecting and its state event.
Stop ==
    /\ aborted = NoFault
    /\ callerPc = "idle"
    /\ lastRequest' = NoRequest
    /\ IF ~isRunning_
         THEN /\ ret' = [op |-> "Stop", val |-> TRUE]
              /\ delivered' = NoEvent
              /\ afterStop' = TRUE
              /\ UNCHANGED << callerPc, state_ >>
         ELSE /\ state_' = "disconnecting"
              /\ delivered' = Dispatch(stateCallback_, StateEvent("disconnecting"))
              /\ callerPc' = "stop_monitoring"
              /\ ret' = NoRet
              /\ UNCHANGED afterStop
    /\ UNCHANGED << isRunning_, stopMonitoring_, processHandle_, processThread_,
                    cfgVars, lastVars, cbVars, initOk, pollVars, envVars,
                    clock, aborted, parsedOnce, sessionSamples >>
    /\ callEvents' = IF delivered'.kind = "none" THEN << >> ELSE << delivered' >>

\* StopMonitoring raising the flag and returning without the joins of
\* lines 340-345.
StopMonitoringSkipsJoin ==
    /\ aborted = NoFault
    /\ callerPc = "stop_monitoring"
    /\ stopMonitoring_' = TRUE
    /\ callerPc' = "stop_terminate"
    /\ delivered' = NoEvent
    /\ lastRequest' = NoRequest
    /\ ret' = NoRet
    /\ UNCHANGED << state_, isRunning_, processHandle_, processThread_,
                    cfgVars, lastVars, cbVars, initOk, pollVars, envVars, clock, aborted,
                    histVars >>
    /\ callEvents' = IF delivered'.kind = "none" THEN callEvents ELSE Append(callEvents, delivered')

\* Line 338: the stop flag is raised.
StopMonitoring ==
    /\ aborted = NoFault
    /\ callerPc = "stop_monitoring"
    /\ stopMonitoring_' = TRUE
    /\ callerPc' = "stop_join"
    /\ delivered' = NoEvent
    /\ lastRequest' = NoRequest
    /\ ret' = NoRet
    /\ UNCHANGED << state_, isRunning_, processHandle_, processThread_,
                    cfgVars, lastVars, cbVars, initOk, pollVars, envVars, clock, aborted,
                    histVars >>
    /\ callEvents' = IF delivered'.kind = "none" THEN callEvents ELSE Append(callEvents, delivered')

\* StopMonitoring without the join of line 341: the caller goes on while the
\* poller thread still runs.
JoinWithoutWaiting ==
    /\ aborted = NoFault
    /\ callerPc = "stop_join"
    /\ callerPc' = "stop_terminate"
    /\ ret' = NoRet
    /\ delivered' = NoEvent
    /\ lastRequest' = NoRequest
    /\ UNCHANGED << coreVars, cfgVars, lastVars, cbVars, initOk, pollVars,
                    envVars, clock, aborted, histVars >>
    /\ callEvents' = IF delivered'.kind = "none" THEN callEvents ELSE Append(callEvents, delivered')

\* Lines 340-345: join blocks until the poller's lambda has returned; a
\* thread that is not joinable is skipped (logThread_ is never started).
JoinTrafficThread ==
    /\ aborted = NoFault
    /\ callerPc = "stop_join"
    /\ trafficThread \in {"none", "finished"}
    /\ trafficThread' = "none"
    /\ callerPc' = "stop_terminate"
    /\ delivered' = NoEvent
    /\ lastRequest' = NoRequest
    /\ ret' = NoRet
    /\ UNCHANGED << coreVars, cfgVars, lastVars, cbVars, initOk, pollStats, pollNow,
                    envVars, clock, aborted, histVars >>
    /\ callEvents' = IF delivered'.kind = "none" THEN callEvents ELSE Append(callEvents, delivered')

\* Stop's termination step leaving the handles open and set.
TerminateWithoutRelease ==
    /\ aborted = NoFault
    /\ callerPc = "stop_terminate"
    /\ engine' = "none"
    /\ engIdx' = 1
    /\ UNCHANGED << processHandle_, processThread_ >>
    /\ callerPc' = "stop_disconnect"
    /\ delivered' = NoEvent
    /\ lastRequest' = NoRequest
    /\ ret' = NoRet
    /\ UNCHANGED << state_, isRunning_, stopMonitoring_, cfgVars, lastVars, cbVars, initOk,
                    pollVars, coreExists, clock, aborted, histVars >>
    /\ callEvents' = IF delivered'.kind = "none" THEN callEvents ELSE Append(callEvents, delivered')

\* Lines 139-150: terminate, wait at most 3000 ms, close and clear the
\* handles.  Whether or not the process has exited when the wait returns, the
\* handles are closed and no process is tracked any more.
TerminateAndRelease ==
    /\ aborted = NoFault
    /\ callerPc = "stop_terminate"
    /\ engine' = "none"
    /\ engIdx' = 1
    /\ processHandle_' = NULL
    /\ processThread_' = NULL
    /\ callerPc' = "stop_disconnect"
    /\ delivered' = NoEvent
    /\ lastRequest' = NoRequest
    /\ ret' = NoRet
    /\ UNCHANGED << state_, isRunning_, stopMonitoring_, cfgVars, lastVars, cbVars, initOk,
                    pollVars, coreExists, clock, aborted, histVars >>
    /\ callEvents' = IF delivered'.kind = "none" THEN callEvents ELSE Append(callEvents, delivered')

\* Lines 152-158: the running flag is cleared, then disconnected and its
\* state event.
StopDisconnected ==
    /\ aborted = NoFault
    /\ callerPc = "stop_disconnect"
    /\ isRunning_' = FALSE
    /\ state_' = "disconnected"
    /\ delivered' = Dispatch(stateCallback_, StateEvent("disconnected"))
    /\ callerPc' = "stop_return"
    /\ lastRequest' = NoRequest
    /\ ret' = NoRet
    /\ UNCHANGED << stopMonitoring_, processHandle_, processThread_, cfgVars, lastVars,
                    cbVars, initOk, pollVars, envVars, clock, aborted, histVars >>
    /\ callEvents' = IF delivered'.kind = "none" THEN callEvents ELSE Append(callEvents, delivered')

\* Line 160.
StopReturn ==
    /\ aborted = NoFault
    /\ callerPc = "stop_return"
    /\ ret' = [op |-> "Stop", val |-> TRUE]
    /\ callerPc' = "idle"
    /\ afterStop' = TRUE
    /\ delivered' = NoEvent
    /\ lastRequest' = NoRequest
    /\ UNCHANGED << coreVars, cfgVars, lastVars, cbVars, initOk, pollVars, envVars, clock,
                    aborted, parsedOnce, sessionSamples >>
    /\ callEvents' = IF delivered'.kind = "none" THEN callEvents ELSE Append(callEvents, delivered')

(***************************************************************************)
(* MihomoCore::IsRunning                                                   *)
(***************************************************************************)
\* IsRunning trusting the running flag alone, without asking the OS.
IsRunningFlagOnly == isRunning_

\* GetExitCodeProcess reports STILL_ACTIVE exactly for a live process.
IsRunning == isRunning_ /\ processHandle_ # NULL /\ engine = "alive"

IsCoreRunning ==
    /\ aborted = NoFault
    /\ callerPc = "idle"
    /\ ret' = [op |-> "IsRunning", val |-> IsRunning]
    /\ delivered' = NoEvent
    /\ lastRequest' = NoRequest
    /\ UNCHANGED << callerPc, coreVars, cfgVars, lastVars, cbVars, initOk, pollVars,
                    envVars, clock, aborted, histVars >>
    /\ callEvents' = << >>

(***************************************************************************)
(* The engine process                                                      *)
(***************************************************************************)
\* The engine exits on its own.
EngineExit ==
    /\ aborted = NoFault
    /\ engine = "alive"
    /\ engine' = "exited"
    /\ engIdx' = 1
    /\ delivered' = NoEvent
    /\ lastRequest' = NoRequest
    /\ ret' = NoRet
    /\ UNCHANGED << callerPc, coreVars, cfgVars, lastVars, cbVars, initOk, pollVars,
                    coreExists, clock, aborted, histVars >>
    /\ callEvents' = IF callerPc = "idle" THEN << >> ELSE callEvents

\* mihomo.exe is put into the work directory (the file system is not under
\* the program's control; Init looked at it once, at line 47).
CoreInstalled ==
    /\ aborted = NoFault
    /\ ~coreExists
    /\ coreExists' = TRUE
    /\ delivered' = NoEvent
    /\ lastRequest' = NoRequest
    /\ ret' = NoRet
    /\ UNCHANGED << callerPc, coreVars, cfgVars, lastVars, cbVars, initOk, pollVars,
                    engine, engIdx, clock, aborted, histVars >>
    /\ callEvents' = IF callerPc = "idle" THEN << >> ELSE callEvents

\* Traffic passes: the cumulative counters grow.
EngineTraffic ==
    /\ aborted = NoFault
    /\ engine = "alive"
    /\ engIdx < Len(EngineCounters)
    /\ engIdx' = engIdx + 1
    /\ delivered' = NoEvent
    /\ lastRequest' = NoRequest
    /\ ret' = NoRet
    /\ UNCHANGED << callerPc, coreVars, cfgVars, lastVars, cbVars, initOk, pollVars,
                    coreExists, engine, clock, aborted, histVars >>
    /\ callEvents' = IF callerPc = "idle" THEN << >> ELSE callEvents

(***************************************************************************)
(* HTTP Control Client                                                     *)
(***************************************************************************)
\* The request HttpGet/HttpPut build from the endpoint fields; the
\* Authorization header is added when the secret is not empty.
Request(method, path) ==
    [method |-> method, path |-> path, host |-> controllerHost_,
     port |-> controllerPort_, bearer |-> controllerSecret_]

\* A PUT together with the status code it was answered with.
PutRequest(path, status) ==
    [method |-> "PUT", path |-> path, host |-> controllerHost_,
     port |-> controllerPort_, bearer |-> controllerSecret_, status |-> status]

EmptyResponse == [empty |-> TRUE]

Num(n) == [tag |-> "num", val |-> n]
Absent == [tag |-> "absent"]
Huge == [tag |-> "huge"]        \* more digits than the result type holds

\* HttpGet returns "" when the transport fails (the catch-all), and the body
\* otherwise; the status code is not looked at.  Only a live engine answers.
TrafficResponses ==
    {EmptyResponse} \cup
    (IF engine = "alive"
       THEN { [empty |-> FALSE, up |-> Num(EngineCounters[engIdx].up),
                                down |-> Num(EngineCounters[engIdx].down)],
              [empty |-> FALSE, up |-> Absent, down |-> Absent],
              [empty |-> FALSE, up |-> Huge, down |-> Num(EngineCounters[engIdx].down)] }
       ELSE {})

VersionResponses ==
    {EmptyResponse} \cup
    (IF engine = "alive"
       THEN { [empty |-> FALSE, hasVersion |-> TRUE, version |-> "v1.18"],
              [empty |-> FALSE, hasVersion |-> FALSE, version |-> ""] }
       ELSE {})

DelayResponses ==
    {EmptyResponse} \cup
    (IF engine = "alive"
       THEN { [empty |-> FALSE, delay |-> Num(120)],
              [empty |-> FALSE, delay |-> Absent],
              [empty |-> FALSE, delay |-> Huge] }
       ELSE {})

\* What a GET of /connections can meet: no answer (connect, send or receive
\* fails), or an answer with its status code and body.  The engine answers a
\* request it rejects with an error status and a JSON message as the body.
ConnectionsAnswers ==
    { [received |-> FALSE, status |-> 0, body |-> ""] } \cup
    (IF engine = "alive"
       THEN { [received |-> TRUE, status |-> 200, body |-> "{connections}"],
              [received |-> TRUE, status |-> 401, body |-> "{message}"] }
       ELSE {})

\* Lines 354-408: "" when the transport fails (the catch-all), otherwise the
\* bytes read from the response; the status code is not queried.
HttpGet(answer) == IF answer.received THEN answer.body ELSE ""

\* A GET together with the status code it was answered with.
GetRequest(path, status) ==
    [method |-> "GET", path |-> path, host |-> controllerHost_,
     port |-> controllerPort_, bearer |-> controllerSecret_, status |-> status]

\* Status codes a PUT can end with; 0 stands for a transport failure.
PutStatuses == IF engine = "alive" THEN {0, 199, 200, 299, 300} ELSE {0}

\* HttpPut taking every answer for a success, whatever its status.
HttpPutIgnoresStatus(status) == IF status > 0 THEN "success" ELSE ""

\* Lines 451-459: "success" for a 2xx status, "" otherwise.
HttpPut(status) == IF status >= 200 /\ status < 300 THEN "success" ELSE ""

(***************************************************************************)
(* Control-API queries (caller thread)                                     *)
(***************************************************************************)
\* std::stoll / std::stoi throw std::out_of_range on a number that does not fit.
TrafficThrows(resp) == ~resp.empty /\ (resp.up.tag = "huge" \/ resp.down.tag = "huge")

\* Lines 199-218 without the throwing case: missing fields stay 0.
TrafficStatsOf(resp) ==
    [upload        |-> IF ~resp.empty /\ resp.up.tag = "num" THEN resp.up.val ELSE 0,
     download      |-> IF ~resp.empty /\ resp.down.tag = "num" THEN resp.down.val ELSE 0,
     uploadSpeed   |-> 0,
     downloadSpeed |-> 0]

queryFrame == << callerPc, coreVars, cfgVars, lastVars, cbVars, initOk, pollVars, envVars,
                 clock, histVars >>

GetVersion ==
    /\ aborted = NoFault
    /\ callerPc = "idle"
    /\ lastRequest' = Request("GET", "/version")
    /\ \E resp \in VersionResponses :
          ret' = [op |-> "GetVersion",
                  val |-> IF ~resp.empty /\ resp.hasVersion THEN resp.version ELSE "unknown"]
    /\ delivered' = NoEvent
    /\ UNCHANGED << queryFrame, aborted >>
    /\ callEvents' = << >>

GetTrafficStats ==
    /\ aborted = NoFault
    /\ callerPc = "idle"
    /\ lastRequest' = Request("GET", "/traffic")
    /\ \E resp \in TrafficResponses :
          IF TrafficThrows(resp)
            THEN aborted' = "out_of_range" /\ ret' = NoRet
            ELSE /\ ret' = [op |-> "GetTrafficStats", val |-> TrafficStatsOf(resp)]
                 /\ UNCHANGED aborted
    /\ delivered' = NoEvent
    /\ UNCHANGED queryFrame
    /\ callEvents' = << >>

TestDelay ==
    /\ aborted = NoFault
    /\ callerPc = "idle"
    /\ lastRequest' = Request("GET", "/proxies/{name}/delay")
    /\ \E resp \in DelayResponses :
          IF ~resp.empty /\ resp.delay.tag = "huge"
            THEN aborted' = "out_of_range" /\ ret' = NoRet
            ELSE /\ ret' = [op |-> "TestDelay",
                            val |-> IF ~resp.empty /\ resp.delay.tag = "num"
                                      THEN resp.delay.val ELSE -1]
                 /\ UNCHANGED aborted
    /\ delivered' = NoEvent
    /\ UNCHANGED queryFrame
    /\ callEvents' = << >>

SwitchProxy ==
    /\ aborted = NoFault
    /\ callerPc = "idle"
    /\ \E status \in PutStatuses :
          /\ lastRequest' = PutRequest("/proxies/{selector}", status)
          /\ ret' = [op |-> "SwitchProxy", val |-> HttpPut(status) # ""]
    /\ delivered' = NoEvent
    /\ UNCHANGED << queryFrame, aborted >>
    /\ callEvents' = << >>

GetConnections ==
    /\ aborted = NoFault
    /\ callerPc = "idle"
    /\ \E answer \in ConnectionsAnswers :
          /\ lastRequest' = GetRequest("/connections", answer.status)
          /\ ret' = [op |-> "GetConnections", val |-> HttpGet(answer)]
    /\ delivered' = NoEvent
    /\ UNCHANGED << queryFrame, aborted >>
    /\ callEvents' = << >>

\* Lines 163-172.
ReloadConfig(p) ==
    /\ aborted = NoFault
    /\ callerPc = "idle"
    /\ \E status \in PutStatuses :
          /\ lastRequest' = PutRequest("/configs?force=true", status)
          /\ IF HttpPut(status) # ""
               THEN /\ configPath_' = p
                    /\ ParseControllerSettings(p)
                    /\ ret' = [op |-> "ReloadConfig", val |-> TRUE]
               ELSE /\ ret' = [op |-> "ReloadConfig", val |-> FALSE]
                    /\ UNCHANGED << cfgVars, parsedOnce >>
    /\ delivered' = NoEvent
    /\ UNCHANGED << callerPc, coreVars, lastVars, cbVars, initOk, pollVars, envVars, clock,
                    aborted, afterStop, sessionSamples >>
    /\ callEvents' = << >>

(***************************************************************************)
(* Telemetry Poller: the lambda of StartTrafficMonitor                     *)
(***************************************************************************)
\* static_cast<int64_t>(x / y): the quotient rounded toward zero.
TruncDiv(a, b) == IF a >= 0 THEN a \div b ELSE -((-a) \div b)

\* The rate with the elapsed time left in milliseconds.
RatePerMillisecond(cur, prev, elapsedMs) == TruncDiv(cur - prev, elapsedMs)

\* Lines 318, 321-322: (current - previous) / ((now - lastTime_) / 1000.0).
Rate(cur, prev, elapsedMs) == TruncDiv((cur - prev) * MsPerSecond, elapsedMs)

\* Line 313: the loop condition.
PollLoop ==
    /\ aborted = NoFault
    /\ trafficThread = "loop"
    /\ trafficThread' = IF stopMonitoring_ THEN "finished" ELSE "guard"
    /\ delivered' = NoEvent
    /\ lastRequest' = NoRequest
    /\ ret' = NoRet
    /\ UNCHANGED << callerPc, coreVars, cfgVars, lastVars, cbVars, initOk, pollStats,
                    pollNow, envVars, clock, aborted, histVars >>
    /\ callEvents' = IF callerPc = "idle" THEN << >> ELSE callEvents

\* Line 314, and line 332 when the test fails.
PollGuard ==
    /\ aborted = NoFault
    /\ trafficThread = "guard"
    /\ IF isRunning_ /\ trafficCallback_
         THEN trafficThread' = "sample" /\ UNCHANGED clock
         ELSE trafficThread' = "loop" /\ clock' = Later(PollMs)
    /\ delivered' = NoEvent
    /\ lastRequest' = NoRequest
    /\ ret' = NoRet
    /\ UNCHANGED << callerPc, coreVars, cfgVars, lastVars, cbVars, initOk, pollStats,
                    pollNow, envVars, aborted, histVars >>
    /\ callEvents' = IF callerPc = "idle" THEN << >> ELSE callEvents

\* Lines 315-325: fetch, time stamp, rates and the traffic event.  An
\* exception from GetTrafficStats, or from invoking an observer slot emptied
\* since line 314 (std::bad_function_call), leaves the thread function.
PollSample ==
    /\ aborted = NoFault
    /\ trafficThread = "sample"
    /\ lastRequest' = Request("GET", "/traffic")
    /\ \E resp \in TrafficResponses :
          LET stats == TrafficStatsOf(resp)
              now == clock
              emit == lastTime_ > 0 /\ now - lastTime_ > 0
              rated == [stats EXCEPT
                          !.uploadSpeed = Rate(stats.upload, lastUpload_, now - lastTime_),
                          !.downloadSpeed = Rate(stats.download, lastDownload_, now - lastTime_)]
          IN  IF TrafficThrows(resp) \/ (emit /\ ~trafficCallback_)
                THEN /\ aborted' = (IF TrafficThrows(resp) THEN "out_of_range"
                                                        ELSE "bad_function_call")
                     /\ delivered' = NoEvent
                     /\ UNCHANGED << pollVars, sessionSamples >>
                ELSE /\ pollStats' = IF emit THEN rated ELSE stats
                     /\ pollNow' = now
                     /\ delivered' = IF emit THEN TrafficEvent(rated) ELSE NoEvent
                     /\ trafficThread' = "advance"
                     /\ sessionSamples' = IF sessionSamples < 2 THEN sessionSamples + 1 ELSE 2
                     /\ UNCHANGED aborted
    /\ ret' = NoRet
    /\ UNCHANGED << callerPc, coreVars, cfgVars, lastVars, cbVars, initOk, envVars,
                    clock, parsedOnce, afterStop >>
    /\ callEvents' = IF callerPc = "idle" THEN << >> ELSE callEvents

\* Lines 327-332: the previous sample is advanced, then Sleep(1000).
PollAdvance ==
    /\ aborted = NoFault
    /\ trafficThread = "advance"
    /\ lastUpload_' = pollStats.upload
    /\ lastDownload_' = pollStats.download
    /\ lastTime_' = pollNow
    /\ pollStats' = NoStats
    /\ pollNow' = 0
    /\ clock' = Later(PollMs)
    /\ trafficThread' = "loop"
    /\ delivered' = NoEvent
    /\ lastRequest' = NoRequest
    /\ ret' = NoRet
    /\ UNCHANGED << callerPc, coreVars, cfgVars, cbVars, initOk, envVars, aborted,
                    histVars >>
    /\ callEvents' = IF callerPc = "idle" THEN << >> ELSE callEvents

(***************************************************************************)
(* Specifications                                                          *)
(***************************************************************************)
Poller == PollLoop \/ PollGuard \/ PollSample \/ PollAdvance

Teardown ==
    StopMonitoring \/ JoinTrafficThread \/ TerminateAndRelease \/ StopDisconnected \/ StopReturn

Next ==
    \/ Register
    \/ OnListen
    \/ OnCancel
    \/ \E p \in ConfigFiles : Start(p)
    \/ StartHealthCheck
    \/ StartAbort
    \/ StartTrafficMonitor
    \/ Stop
    \/ StopMonitoring
    \/ JoinTrafficThread
    \/ TerminateAndRelease
    \/ StopDisconnected
    \/ StopReturn
    \/ IsCoreRunning
    \/ GetVersion
    \/ GetTrafficStats
    \/ TestDelay
    \/ SwitchProxy
    \/ GetConnections
    \/ \E p \in ConfigFiles : ReloadConfig(p)
    \/ EngineExit
    \/ CoreInstalled
    \/ EngineTraffic
    \/ PollLoop
    \/ PollGuard
    \/ PollSample
    \/ PollAdvance

Spec == Init /\ [][Next]_vars

\* The poller thread and a Stop in progress are scheduled: neither waits
\* forever while it can take a step.
FairSpec == Spec /\ WF_vars(Poller) /\ WF_vars(Teardown)

(***************************************************************************)
(* Properties                                                              *)
(***************************************************************************)
\* C1: Connection State changes only along disconnected -> connected ->
\* disconnecting -> disconnected; no step takes it anywhere else (in
\* particular never connected -> disconnected or disconnected -> disconnecting).
StatePathOnly ==
    [][ state_' # state_ =>
          << state_, state_' >> \in { << "disconnected", "connected" >>,
                                      << "connected", "disconnecting" >>,
                                      << "disconnecting", "disconnected" >> } ]_vars

\* A Stop that began in connected has gone through its teardown and returned.
StatePathWitness ==
    /\ ret = [op |-> "Stop", val |-> TRUE]
    /\ state_ = "disconnected"
    /\ configPath_ # ""
    /\ lastTime_ > 0

\* C2: a Start called while Connection State is connected returns success and
\* changes nothing: no spawn, no new poller thread, no event, the handles, the
\* configuration path and the endpoint as they were.
StartWhileConnectedIsNoop ==
    [][ (state_ = "connected" /\ callerPc = "idle" /\ \E p \in ConfigFiles : Start(p)) =>
          /\ ret' = [op |-> "Start", val |-> TRUE]
          /\ delivered' = NoEvent
          /\ lastRequest' = NoRequest
          /\ callerPc' = "idle"
          /\ UNCHANGED << coreVars, cfgVars, pollVars, envVars, lastVars, cbVars >> ]_vars

\* A Start has returned success while the poller of the running session is in
\* the middle of a cycle: the call was a repeated one.
StartWhileConnectedWitness ==
    /\ ret = [op |-> "Start", val |-> TRUE]
    /\ state_ = "connected"
    /\ trafficThread \in {"guard", "sample", "advance"}

\* C3: a Stop called while Connection State is disconnected returns success
\* and changes nothing: no event, state still disconnected, handle still
\* null, stop flag and poller thread untouched.
StopWhileDisconnectedIsNoop ==
    [][ (state_ = "disconnected" /\ callerPc = "idle" /\ Stop) =>
          /\ ret' = [op |-> "Stop", val |-> TRUE]
          /\ delivered' = NoEvent
          /\ state_' = "disconnected"
          /\ processHandle_' = NULL
          /\ callerPc' = "idle"
          /\ UNCHANGED << coreVars, cfgVars, pollVars, envVars, lastVars, cbVars >> ]_vars

\* Stop has returned on a supervisor that was never started.
StopWhileDisconnectedWitness ==
    /\ ret = [op |-> "Stop", val |-> TRUE]
    /\ state_ = "disconnected"
    /\ configPath_ = ""

\* C4: every Stop that has begun its teardown returns to the caller.
StopEventuallyReturns ==
    (callerPc \in {"stop_monitoring", "stop_join", "stop_terminate", "stop_disconnect",
                   "stop_return"})
        ~> (callerPc = "idle")

\* What does hold of Stop under the same scheduling: it returns unless an
\* exception has ended the program in the meantime.
StopReturnsUnlessAborted ==
    (callerPc \in {"stop_monitoring", "stop_join", "stop_terminate", "stop_disconnect",
                   "stop_return"})
        ~> (callerPc = "idle" \/ aborted # NoFault)

\* C5: from the return of a Stop until the next call of Start no traffic
\* event and no state event is delivered and no poller thread exists.
QuietAfterStop ==
    afterStop =>
        /\ delivered.kind \notin {"traffic", "state"}
        /\ trafficThread = "none"

\* Stop has returned from a session in which the poller had sampled, and the
\* observers are still attached.
QuietAfterStopWitness ==
    /\ afterStop
    /\ lastTime_ > 0
    /\ trafficCallback_
    /\ stateCallback_
    /\ engine = "none"

\* C6: a traffic event never comes from the first sample taken after a
\* successful Start: it comes from the second sample of the session or later.
FirstSampleIsSilent == delivered.kind = "traffic" => sessionSamples >= 2

\* q is a / b rounded toward zero.
IsTruncatedQuotient(q, a, b) ==
    /\ b > 0
    /\ IF a >= 0 THEN q >= 0 /\ q * b <= a /\ a < (q + 1) * b
                 ELSE q <= 0 /\ q * b >= a /\ a > (q - 1) * b

\* C7: a traffic event carries the totals of the sample just taken, and for
\* each direction the rate (total - previous total) / elapsed seconds rounded
\* toward zero, the elapsed time being positive.
RateEventCorrect ==
    delivered.kind = "traffic" =>
        /\ trafficThread = "advance"
        /\ lastTime_ > 0
        /\ delivered.upload = pollStats.upload
        /\ delivered.download = pollStats.download
        /\ IsTruncatedQuotient(delivered.uploadSpeed,
                               (pollStats.upload - lastUpload_) * MsPerSecond,
                               pollNow - lastTime_)
        /\ IsTruncatedQuotient(delivered.downloadSpeed,
                               (pollStats.download - lastDownload_) * MsPerSecond,
                               pollNow - lastTime_)

\* (1000, 2000) followed one second later by (1500, 2400): rates 500 and 400.
RateEventWitness ==
    /\ delivered = [kind |-> "traffic", upload |-> 1500, download |-> 2400,
                    uploadSpeed |-> 500, downloadSpeed |-> 400]
    /\ lastUpload_ = 1000
    /\ lastDownload_ = 2000
    /\ pollNow - lastTime_ = MsPerSecond

\* C8: wherever the supervisor can be observed (between calls, and at every
\* state or error event), the process handle is non-null exactly when
\* Connection State is not disconnected.
HandleIffNotDisconnected ==
    (callerPc = "idle" \/ delivered.kind \in {"state", "error"}) =>
        ((processHandle_ # NULL) <=> (state_ # "disconnected"))

\* C9: between calls the poller thread is active exactly when IsRunning
\* reports running.
PollerIffRunning ==
    callerPc = "idle" => ((trafficThread \in {"loop", "guard", "sample", "advance"}) <=> IsRunning)

\* C10: no request goes to the Controller Endpoint before a configuration
\* file has been read and parsed.
NoRequestBeforeParse == lastRequest.method # "none" => parsedOnce

\* C11: when Start has returned failure (the spawn failed, or the process had
\* exited at the end of the grace period) the error observer, if one is
\* registered, has received exactly one error event in that call and nothing
\* else was handed to the sink, Connection State is disconnected, both process
\* handles are null, the running flag is false and there is no poller thread.
LaunchFailureEffects ==
    ret = [op |-> "Start", val |-> FALSE] =>
        /\ Len(callEvents) = (IF errorCallback_ THEN 1 ELSE 0)
        /\ \A i \in 1..Len(callEvents) : callEvents[i].kind = "error"
        /\ state_ = "disconnected"
        /\ processHandle_ = NULL
        /\ processThread_ = NULL
        /\ ~isRunning_
        /\ trafficThread = "none"

\* Start has returned failure, with the observers attached, because the
\* process exited during the grace period of a second session.
LaunchFailureWitness ==
    /\ ret = [op |-> "Start", val |-> FALSE]
    /\ callEvents = << ErrorEvent("Core process exited immediately") >>
    /\ lastTime_ > 0

\* C12: once Init has returned failure because the engine executable was
\* missing, no process is spawned and Connection State never becomes
\* connected (Init runs once, in Register, so no later Init can succeed).
NoProcessAfterInitFailure ==
    (callerPc # "boot" /\ ~initOk) =>
        /\ processHandle_ = NULL
        /\ engine = "none"
        /\ state_ # "connected"

\* C13: ReloadConfig returns success exactly when its PUT was answered with a
\* status from 200 to 299; when it returns failure the configuration path and
\* the endpoint (host, port, secret) are as before; in both cases Connection
\* State, the running flag, the process handles and the poller are untouched.
ReloadConfigContract ==
    [][ ret'.op = "ReloadConfig" =>
          /\ lastRequest'.path = "/configs?force=true"
          /\ ret'.val = (lastRequest'.status \in 200..299)
          /\ (~ret'.val => UNCHANGED cfgVars)
          /\ UNCHANGED << coreVars, pollVars >> ]_vars

\* ReloadConfig has returned failure on a live session whose engine answered
\* the PUT with status 300, the session holding a.yaml's settings.
ReloadConfigWitness ==
    /\ ret = [op |-> "ReloadConfig", val |-> FALSE]
    /\ lastRequest.status = 300
    /\ state_ = "connected"
    /\ configPath_ = "a.yaml"
    /\ controllerSecret_ = "s1"
    /\ trafficThread # "none"

\* C14: GET gives a non-empty result only for a response with a success
\* status (200 to 299); a transport failure and a response with any other
\* status both give the empty string.  GetConnections hands the result of
\* its GET to the caller as it is.
GetEmptyOnFailure ==
    (ret.op = "GetConnections" /\ ret.val # "") => lastRequest.status \in 200..299

\* C15: no control-API query, called by the bridge or made inside a poll
\* cycle, ever ends by raising a fault on a number too large for its result
\* type: each returns its sentinel or its parsed value whatever the response.
NoQueryFault == aborted # "out_of_range"

\* C16: an event reaches the sink only through a slot that holds a callback
\* when the event is produced, and an event produced while its slot is empty
\* is dropped without any other effect: the invocation of an empty slot is
\* never attempted.
EmptySlotDropsEvent ==
    /\ delivered.kind = "state" => stateCallback_
    /\ delivered.kind = "error" => errorCallback_
    /\ delivered.kind = "traffic" => trafficCallback_
    /\ aborted # "bad_function_call"

\* C17: a Stop that begins in connected goes through its steps in this order:
\* disconnecting is set and broadcast before anything is torn down; the stop
\* flag is raised and the poller thread joined while the process is still
\* tracked; the process is terminated and its handles released only once no
\* poller thread exists; disconnected is set and broadcast after the handles
\* were cleared.
StopOrder ==
    /\ callerPc = "stop_monitoring" =>
          /\ state_ = "disconnecting"
          /\ callEvents = (IF stateCallback_ THEN << StateEvent("disconnecting") >> ELSE << >>)
          /\ ~stopMonitoring_
          /\ processHandle_ # NULL
          /\ engine # "none"
    /\ callerPc = "stop_join" =>
          /\ state_ = "disconnecting"
          /\ stopMonitoring_
          /\ processHandle_ # NULL
          /\ engine # "none"
    /\ callerPc = "stop_terminate" =>
          /\ state_ = "disconnecting"
          /\ trafficThread = "none"
          /\ processHandle_ # NULL
          /\ engine # "none"
    /\ callerPc = "stop_disconnect" =>
          /\ state_ = "disconnecting"
          /\ isRunning_
          /\ trafficThread = "none"
          /\ processHandle_ = NULL
          /\ processThread_ = NULL
          /\ engine = "none"
    /\ callerPc = "stop_return" =>
          /\ state_ = "disconnected"
          /\ ~isRunning_
          /\ processHandle_ = NULL
          /\ callEvents = (IF stateCallback_
                            THEN << StateEvent("disconnecting"), StateEvent("disconnected") >>
                            ELSE << >>)

\* Stop is about to return from a session whose poller had sampled, both
\* state events having gone to the sink in order.
StopOrderWitness ==
    /\ callerPc = "stop_return"
    /\ callEvents = << StateEvent("disconnecting"), StateEvent("disconnected") >>
    /\ lastTime_ > 0
    /\ stopMonitoring_

\* C18: a traffic event is delivered only while Connection State is
\* connected, never while it is disconnecting or disconnected.
TrafficOnlyWhileConnected == delivered.kind = "traffic" => state_ = "connected"

\* C19: every cycle of the poll loop that ends while the running flag is set
\* leaves the stored previous sample equal to the sample of that cycle: the
\* totals just fetched and the tick count of the cycle, whether or not an
\* event was emitted and whether or not a traffic observer is registered.
BaselineAdvancesEveryCycle ==
    [][ (isRunning_ /\ trafficThread \in {"guard", "advance"} /\ trafficThread' = "loop") =>
          /\ lastTime_' = (IF trafficThread = "advance" THEN pollNow ELSE clock)
          /\ trafficThread = "advance" =>
                (lastUpload_' = pollStats.upload /\ lastDownload_' = pollStats.download) ]_vars

\* C20: the poller thread sends no request of its own, so it never reads the
\* Controller Endpoint (host, port, secret) that ReloadConfig rewrites on the
\* caller thread: a step in which a poll cycle takes its sample builds no
\* request from the endpoint fields.
EndpointOnlyOnCallerThread ==
    [][ (trafficThread = "sample" /\ trafficThread' = "advance") =>
          lastRequest' = NoRequest ]_vars

\* C21: once the stop flag is set, a poller thread that is still in its loop
\* leaves it: it finishes at most the cycle it is in and then returns from
\* the thread function, where the join of StopMonitoring picks it up.
PollerExitsAfterStopFlag ==
    (stopMonitoring_ /\ trafficThread \in {"loop", "guard", "sample", "advance"})
        ~> (trafficThread \in {"finished", "none"})

\* What does hold of the poller under the same scheduling: it leaves its loop
\* unless an exception has ended the program in the meantime.
PollerExitsUnlessAborted ==
    (stopMonitoring_ /\ trafficThread \in {"loop", "guard", "sample", "advance"})
        ~> (trafficThread \in {"finished", "none"} \/ aborted # NoFault)

\* C22: IsRunning returns true only if the running flag is set, the process
\* handle is non-null and the process has not exited; the query changes
\* nothing and delivers nothing; the exit of the engine process on its own
\* changes no field of the supervisor and delivers no event, and Connection
\* State leaves connected only in a step of Stop.
IsRunningContract ==
    [][ /\ ret'.op = "IsRunning" =>
              /\ ret'.val => (isRunning_ /\ processHandle_ # NULL /\ engine = "alive")
              /\ delivered' = NoEvent
              /\ lastRequest' = NoRequest
              /\ UNCHANGED << coreVars, cfgVars, lastVars, cbVars, pollVars, envVars >>
        /\ (engine = "alive" /\ engine' = "exited") =>
              /\ delivered' = NoEvent
              /\ UNCHANGED << coreVars, cfgVars, lastVars, cbVars, pollVars >>
        /\ (state_ = "connected" /\ state_' # "connected") => Stop ]_vars

\* The query has answered false on a supervisor that is still connected with
\* its flag set and its handle held: the engine has exited on its own.
IsRunningWitness ==
    /\ ret = [op |-> "IsRunning", val |-> FALSE]
    /\ state_ = "connected"
    /\ isRunning_
    /\ processHandle_ # NULL
    /\ engine = "exited"

\* C23: when the configuration file the resolver read last has no secret
\* line, the held secret is empty, whatever files were resolved before it.
SecretEmptyWhenAbsent ==
    (configPath_ # "" /\ FileContent(configPath_).readable
                      /\ ~FileContent(configPath_).hasSecret) => controllerSecret_ = ""

\* C24: when Init has returned failure because the engine executable is
\* missing, an error event for that failure has been delivered to the sink.
InitFailureReported ==
    ret = [op |-> "Init", val |-> FALSE] => delivered.kind = "error"

\* C25: in every step in which the poller invokes the traffic observer slot
\* (the step delivers a traffic event, or the invocation fails), the slot
\* holds a callback at the moment of the invocation.
InvokedSlotIsNonEmpty ==
    [][ (delivered'.kind = "traffic" \/ aborted' = "bad_function_call") =>
          trafficCallback_ ]_vars

\* C26: after the engine process has exited on its own while the supervisor
\* is connected, a Start returns success and changes nothing (no spawn,
\* Connection State still connected); an engine process comes to life only
\* from disconnected, with the running flag down and no handle held, that is
\* only after a Stop has been through.
NoRestartWithoutStop ==
    [][ /\ (callerPc = "idle" /\ state_ = "connected" /\ engine = "exited"
                               /\ ret'.op = "Start") =>
              /\ ret'.val = TRUE
              /\ delivered' = NoEvent
              /\ UNCHANGED << coreVars, cfgVars, pollVars, envVars >>
        /\ (engine # "alive" /\ engine' = "alive") =>
              /\ state_ = "disconnected"
              /\ ~isRunning_
              /\ processHandle_ = NULL ]_vars

\* Start has just returned success without doing anything (the state
\* observer is attached and received nothing) on a connected supervisor
\* whose engine has exited.
NoRestartWitness ==
    /\ ret = [op |-> "Start", val |-> TRUE]
    /\ callerPc = "idle"
    /\ state_ = "connected"
    /\ engine = "exited"
    /\ stateCallback_
    /\ callEvents = << >>

\* C27: the engine's cumulative counters never decrease within a session
\* (EngineCounters is increasing), and every traffic event carries upload and
\* download rates that are not negative.
RatesNonNegative ==
    delivered.kind = "traffic" =>
        (delivered.uploadSpeed >= 0 /\ delivered.downloadSpeed >= 0)

\* C28: StartTrafficMonitor runs only when no poller thread exists (the
\* previous one, if any, has been joined), so a joinable thread object is
\* never assigned to and there is never more than one poller thread.
SinglePollerThread ==
    /\ callerPc = "start_monitor" => trafficThread = "none"
    /\ aborted # "joinable_thread"

\* The poller thread of a second session has just been created: the first
\* session sampled, was stopped and its thread joined.
SinglePollerWitness ==
    /\ ret = [op |-> "Start", val |-> TRUE]
    /\ trafficThread = "loop"
    /\ ~stopMonitoring_
    /\ lastTime_ > 0
    /\ sessionSamples = 0
    /\ callEvents = << StateEvent("connected") >>

=============================================================================
